---- MODULE Spec2Model ----
(***************************************************************************)
(* UrbanSentinel: the classifier singleton (backend/ml_classifier.py),     *)
(* the signal analyzer (backend/analyzer.py) with the keyword matchers and *)
(* the language detector (backend/language.py), the validated models       *)
(* (backend/models.py), the priority scorer (backend/scorer.py), the news  *)
(* fetcher (backend/news_fetcher.py) and the endpoints of backend/main.py  *)
(* that drive them.                                                        *)
(*                                                                         *)
(* Numbers: Python floats are modelled as scaled integers.                 *)
(*   priority scores and classifier confidences: units of 1e-4             *)
(*   reconciled confidence before rounding:      units of 1e-5             *)
(*   reconciled confidence after round(.., 2):   units of 1e-2             *)
(*   time: minutes                                                         *)
(***************************************************************************)
EXTENDS Integers, Sequences, FiniteSets

VARIABLES
    \* ---- backend/ml_classifier.py: the module global and its callers
    classifier,     \* _classifier: None or the instance it refers to
    heap,           \* the RiskClassifier objects constructed so far
    pc,             \* per caller: where it is inside get_classifier()
    local,          \* per caller: the object its RiskClassifier() call is building
    got,            \* per caller: the instances its calls returned, in order
    \* ---- backend/analyzer.py: one analyze_signal(signal) call
    aPc,            \* where the call is
    lang,           \* detect_language(text)
    kw_category,    \* _hybrid_classify: the keyword matcher's category
    keywords,       \* _hybrid_classify: the matched keywords (at most 5)
    ml_category,    \* _hybrid_classify: clf.predict(text)[0]
    ml_confidence,  \* _hybrid_classify: clf.predict(text)[1], units of 1e-4
    category,       \* analyze_signal: the reconciled category
    confidence,     \* analyze_signal: the reconciled confidence, units of 1e-2
    high_hits,      \* _assess_severity: high-severity terms found in the text
    med_hits,       \* _assess_severity: medium-severity terms found in the text
    risk_level,     \* analyze_signal: 1..5
    economic_impact,\* analyze_signal: "Low" | "Medium" | "High"
    analysis,       \* the RiskAnalysis returned, or ValidationError
    \* ---- backend/scorer.py
    now,            \* the last reading of datetime.now(timezone.utc), minutes
    \* compute_priority(signal, analysis) and the alert built from it
    prPc,           \* where the call is
    sig,            \* the Signal
    ana,            \* the RiskAnalysis
    score,          \* compute_priority's result, units of 1e-4
    alert,          \* the PrioritizedAlert, or ValidationError
    \* prioritize_alerts(pairs)
    bPc,            \* where the call is
    pairs,          \* the argument: a list of <<Signal, RiskAnalysis>>
    alerts,         \* the local list `alerts`
    ri,             \* the index i of the ranking loop (0-based)
    \* ---- backend/analyzer.py, backend/language.py: one keyword-matcher call
    mPc,            \* where the call is
    mLang,          \* which matcher: "en" _match_category, "zh" match_zh_category
    mi,             \* categories of the table the loop has gone through
    best_cat,       \* the local best_cat
    best_score,     \* the local best_score
    matched_kw,     \* the local matched_kw: table positions, in table order
    hit_count,      \* len(hits) of each category the loop has gone through
    matched,        \* the value returned: <<category, keywords>>
    \* ---- backend/language.py: one detect_language(text) call
    lPc,            \* where the call is
    text,           \* the argument
    detected,       \* the value returned
    \* ---- backend/main.py: analyze_batch (dashboard/app.py: the same loop)
    signals,        \* the loaded signals
    si,             \* signals the loop has gone through
    skipped,        \* ids of the signals whose analyze_signal call raised
    \* ---- backend/news_fetcher.py: one fetch_risk_news call
    nPc,            \* where the call is
    qi,             \* queries of RISK_QUERIES the outer loop has gone through
    responses,      \* what the news API did on each query so far
    articles,       \* the list fetch_news returned for the current query
    ai,             \* articles of that list the inner loop has gone through
    idx,            \* the local idx
    news,           \* the local list `signals`
    \* ---- backend/analyzer.py: the text given to _assess_severity
    sev_text,       \* the severity terms that occur in it, as they are spelled
    \* ---- backend/analyzer.py: analyze_signal calls of concurrent requests
    job,            \* per thread: the signal it is analyzing, if any
    analyses        \* per thread: the calls it has finished, signal and result

clsVars == <<classifier, heap, pc, local, got>>
hybridVars == <<kw_category, keywords, ml_category, ml_confidence>>
severityVars == <<high_hits, med_hits, risk_level, economic_impact>>
anVars == <<aPc, lang, hybridVars, category, confidence, severityVars, analysis>>
prVars == <<prPc, sig, ana, score, alert>>
baVars == <<bPc, pairs, alerts, ri>>
mtVars == <<mPc, mLang, mi, best_cat, best_score, matched_kw, hit_count, matched>>
lgVars == <<lPc, text, detected>>
abVars == <<signals, si, skipped>>
nwVars == <<nPc, qi, responses, articles, ai, idx, news>>
svVars == <<sev_text>>
ccVars == <<job, analyses>>
vars == <<clsVars, anVars, now, prVars, baVars, mtVars, lgVars, abVars, nwVars, svVars, ccVars>>
\* what the steps of one component leave alone
notCls == <<anVars, now, prVars, baVars, mtVars, lgVars, abVars, nwVars, svVars, ccVars>>
notAn == <<clsVars, now, prVars, baVars, mtVars, lgVars, abVars, nwVars, svVars, ccVars>>
notPr == <<clsVars, anVars, baVars, mtVars, lgVars, abVars, nwVars, svVars, ccVars>>
notBa == <<clsVars, anVars, prVars, mtVars, lgVars, abVars, nwVars, svVars, ccVars>>
notMt == <<clsVars, anVars, now, prVars, baVars, lgVars, abVars, nwVars, svVars, ccVars>>
notLg == <<clsVars, anVars, now, prVars, baVars, mtVars, abVars, nwVars, svVars, ccVars>>
notAb == <<clsVars, anVars, prVars, mtVars, lgVars, nwVars, svVars, ccVars>>
notNw == <<clsVars, anVars, now, prVars, baVars, mtVars, lgVars, abVars, svVars, ccVars>>

\* ------------------------------------------------------------------------
\* Bounds
\* ------------------------------------------------------------------------
NumCallers == 3     \* threads (request handlers) that call get_classifier()
MaxCalls == 3       \* calls each of them makes
MaxHits == 6        \* keywords of one category's list found in one text
MaxSevHits == 3     \* terms of one severity list found in one text
MlGrid == 16        \* classifier confidences tried: k/MlGrid, k = 0..MlGrid
MaxClock == 1       \* minutes the clock can advance during one call
MaxPairs == 3       \* length of the list given to prioritize_alerts
MaxOutside == 3     \* how far out of range the arguments of a constructor go
MaxPad == 3         \* whitespace characters before and after a text
MaxCjk == 3         \* ideographic characters of a text
MaxOther == 17      \* other characters of a text
MaxArticles == 2    \* articles in one answer of the news API
MaxSevTerms == 2    \* severity terms that occur in one text
NumAnalysts == 2    \* threads that call analyze_signal
MaxAnalyses == 3    \* analyze_signal calls they make between them
MaxKwPos == 6       \* keyword-list positions a text can hit: the first MaxKwPos

\* ------------------------------------------------------------------------
\* backend/ml_classifier.py
\* ------------------------------------------------------------------------
None == 0
Callers == 1..NumCallers

\* (mutant) the test succeeds whatever the global holds
IsNoneAlways(ref) == TRUE

\* `_classifier is None`
IsNone(ref) == ref = None

\* A caller enters get_classifier().
Call(t) ==
    /\ pc[t] = "idle"
    /\ Len(got[t]) < MaxCalls
    /\ pc' = [pc EXCEPT ![t] = "test"]
    /\ UNCHANGED <<classifier, heap, local, got, notCls>>

\* A caller enters get_classifier() while no other call is in progress.
CallSeq(t) ==
    /\ \A u \in Callers : pc[u] = "idle"
    /\ Call(t)

\* if _classifier is None:
CheckNone(t) ==
    /\ pc[t] = "test"
    /\ pc' = [pc EXCEPT ![t] = IF IsNone(classifier) THEN "init" ELSE "return"]
    /\ UNCHANGED <<classifier, heap, local, got, notCls>>

\* RiskClassifier.__init__: build the pipeline, self._trained = False
Construct(t) ==
    /\ pc[t] = "init"
    /\ heap' = Append(heap, [trained |-> FALSE, fits |-> 0])
    /\ local' = [local EXCEPT ![t] = Len(heap) + 1]
    /\ pc' = [pc EXCEPT ![t] = "train"]
    /\ UNCHANGED <<classifier, got, notCls>>

\* self._train(): pipeline.fit(texts, labels); self._trained = True
Train(t) ==
    /\ pc[t] = "train"
    /\ heap' = [heap EXCEPT ![local[t]] =
                   [trained |-> TRUE, fits |-> heap[local[t]].fits + 1]]
    /\ pc' = [pc EXCEPT ![t] = "store"]
    /\ UNCHANGED <<classifier, local, got, notCls>>

\* _classifier = <the new object>
Store(t) ==
    /\ pc[t] = "store"
    /\ classifier' = local[t]
    /\ pc' = [pc EXCEPT ![t] = "return"]
    /\ UNCHANGED <<heap, local, got, notCls>>

\* return _classifier   (reads the global again)
Return(t) ==
    /\ pc[t] = "return"
    /\ got' = [got EXCEPT ![t] = Append(got[t], classifier)]
    /\ local' = [local EXCEPT ![t] = None]
    /\ pc' = [pc EXCEPT ![t] = "idle"]
    /\ UNCHANGED <<classifier, heap, notCls>>

ClsInit ==
    /\ classifier = None
    /\ heap = <<>>
    /\ pc = [t \in Callers |-> "idle"]
    /\ local = [t \in Callers |-> None]
    /\ got = [t \in Callers |-> <<>>]

\* ------------------------------------------------------------------------
\* backend/models.py
\* ------------------------------------------------------------------------
\* RiskCategory, in declaration order
RiskCategory == <<"Crime", "Traffic", "Fraud", "Infrastructure Failure">>
Categories == {RiskCategory[i] : i \in 1..Len(RiskCategory)}
\* EconomicImpact
EconomicImpact == {"Low", "Medium", "High"}

\* What a variable for an object holds before there is one, and what it holds
\* when pydantic rejected the construction
NoObject == [error |-> "none"]
ValidationError == [error |-> "ValidationError"]
IsObject(x) == "error" \notin DOMAIN x

\* SourceType
SourceType == {"government", "news", "citizen_report", "social_media"}

\* (mutant) exclusive bounds: Field(gt=0.0, lt=1.0)
PrioritizedAlertValidStrict(sc) == sc > 0 /\ sc < 10000

\* PrioritizedAlert: priority_score Field(ge=0.0, le=1.0), units of 1e-4
PrioritizedAlertValid(sc) == sc >= 0 /\ sc <= 10000

\* (mutant) ranks start at 1: the field's default and the endpoint's argument
\* one too high
PrioritizedAlertRankedOne(s, a, sc, rk) ==
    IF PrioritizedAlertValid(sc)
    THEN [signal |-> s, analysis |-> a, priority_score |-> sc, rank |-> rk + 1]
    ELSE ValidationError

\* PrioritizedAlert(signal=, analysis=, priority_score=, rank=): the object,
\* or the validation error pydantic raises
PrioritizedAlert(s, a, sc, rk) ==
    IF PrioritizedAlertValid(sc)
    THEN [signal |-> s, analysis |-> a, priority_score |-> sc, rank |-> rk]
    ELSE ValidationError

\* (mutant) the lower bound of risk_level one too low: Field(ge=0, le=5)
RiskAnalysisValidFromZero(rl, conf) == rl >= 0 /\ rl <= 5 /\ conf >= 0 /\ conf <= 100

\* RiskAnalysis: risk_level Field(ge=1, le=5), confidence Field(ge=0.0, le=1.0)
\* (confidence in units of 1e-2)
RiskAnalysisValid(rl, conf) == rl >= 1 /\ rl <= 5 /\ conf >= 0 /\ conf <= 100

\* ------------------------------------------------------------------------
\* backend/analyzer.py, backend/language.py
\* ------------------------------------------------------------------------
Min(a, b) == IF a <= b THEN a ELSE b
Max(a, b) == IF a >= b THEN a ELSE b

Langs == {"en", "zh"}

\* Lengths of the keyword lists: CATEGORY_KEYWORDS (en), ZH_CATEGORY_KEYWORDS (zh)
KeywordCount ==
    [en |-> [c \in Categories |->
                CASE c = "Crime" -> 14 [] c = "Traffic" -> 16
                  [] c = "Fraud" -> 9 [] OTHER -> 16],
     zh |-> [c \in Categories |->
                CASE c = "Crime" -> 17 [] c = "Traffic" -> 15
                  [] c = "Fraud" -> 12 [] OTHER -> 14]]

\* Lengths of HIGH_SEVERITY / MEDIUM_SEVERITY and their ZH_ counterparts
SeverityCount == [en |-> [high |-> 15, med |-> 10], zh |-> [high |-> 10, med |-> 9]]

\* What a text is to the keyword matcher: for each category, how many
\* keywords of its list occur in the text (`hits = [kw for kw in keywords
\* if kw in text]`), the k-th of them written [cat |-> c, k |-> k].
TextHits(l) ==
    {h \in [Categories -> 0..MaxHits] :
        \A c \in Categories : h[c] <= KeywordCount[l][c]}

\* The loop of _match_category / match_zh_category from the i-th category on:
\*   if len(hits) > best_score: best_score, best_cat, matched_kw = ...
RECURSIVE MatchLoop(_, _, _, _)
MatchLoop(hits, i, bestCat, bestScore) ==
    IF i > Len(RiskCategory)
    THEN <<bestCat, bestScore>>
    ELSE LET cat == RiskCategory[i]
         IN  IF hits[cat] > bestScore
             THEN MatchLoop(hits, i + 1, cat, hits[cat])
             ELSE MatchLoop(hits, i + 1, bestCat, bestScore)

\* (mutant) the whole list of hits is returned: the [:5] slice forgotten
_match_category_unsliced(hits) ==
    LET best == MatchLoop(hits, 1, "Infrastructure Failure", 0)
    IN  <<best[1], [k \in 1..best[2] |-> [cat |-> best[1], k |-> k]]>>

\* _match_category(text) and match_zh_category(text): the same algorithm over
\* the two tables; returns <<best_cat, matched_kw[:5]>>
_match_category(hits) ==
    LET best == MatchLoop(hits, 1, "Infrastructure Failure", 0)
        matchedKw == [k \in 1..best[2] |-> [cat |-> best[1], k |-> k]]
    IN  <<best[1], SubSeq(matchedKw, 1, Min(5, Len(matchedKw)))>>

\* (mutant) the base 0.5 left out
kw_confidence_no_base(kws) == Min(9500, Len(kws) * 1000)

\* kw_confidence = min(0.95, 0.5 + len(keywords) * 0.1), units of 1e-4
kw_confidence_of(kws) == Min(9500, 5000 + Len(kws) * 1000)

\* The confidences clf.predict can return: round(max(proba), 4), units of 1e-4.
\* The largest of the probabilities of the four classes is at least 1/4.  A
\* grid over [1/4, 1] together with the values around the 0.6 threshold.
MlConfidences ==
    {v \in {(k * 10000) \div MlGrid : k \in 0..MlGrid} :
        v >= 10000 \div Len(RiskCategory)} \cup {6000, 6001}

\* (mutant) the agreement bonus subtracted instead of added
AgreeConfidenceMinus(kwc, mlc) == Min(95000, kwc * 6 + mlc * 4 - 5000)

\* min(0.95, kw_confidence * 0.6 + ml_confidence * 0.4 + 0.05), units of 1e-5
AgreeConfidence(kwc, mlc) == Min(95000, kwc * 6 + mlc * 4 + 5000)

\* (mutant) the language is not consulted
MlOverridesAnyLang(mlc, l) == mlc > 6000

\* ml_confidence > 0.6 and lang == "en"
MlOverrides(mlc, l) == mlc > 6000 /\ l = "en"

\* (mutant) the classifier is asked before the keyword count: the second and
\* the third branch of the chain swapped
ReconcileMlFirst(l, kwcat, kws, mlcat, mlc) ==
    LET kwc == kw_confidence_of(kws)
    IN  IF kwcat = mlcat THEN <<kwcat, AgreeConfidence(kwc, mlc)>>
        ELSE IF MlOverrides(mlc, l) THEN <<mlcat, mlc * 6 + kwc * 4>>
        ELSE IF Len(kws) >= 2 THEN <<kwcat, kwc * 7 + mlc * 3>>
        ELSE <<kwcat, kwc * 6 + mlc * 4>>

\* The if/elif chain of _hybrid_classify: <<final_category, final_confidence>>,
\* the confidence in units of 1e-5
Reconcile(l, kwcat, kws, mlcat, mlc) ==
    LET kwc == kw_confidence_of(kws)
    IN  IF kwcat = mlcat THEN <<kwcat, AgreeConfidence(kwc, mlc)>>
        ELSE IF Len(kws) >= 2 THEN <<kwcat, kwc * 7 + mlc * 3>>
        ELSE IF MlOverrides(mlc, l) THEN <<mlcat, mlc * 6 + kwc * 4>>
        ELSE <<kwcat, kwc * 6 + mlc * 4>>

\* (mutant) no clamp before rounding
ClampNone(v) == v

\* min(final_confidence, 0.95)
Clamp(v) == Min(v, 95000)

\* round(x, 2) of a float x given in units of 1e-5: the results in units of
\* 1e-2.  Off a tie the nearest hundredth.  On a decimal tie (x = n.5
\* hundredths) the float that stands for x lies just below or just above the
\* tie, depending on its binary expansion, so either neighbour can come out.
Round2(v) ==
    IF v % 1000 = 500
    THEN {v \div 1000, v \div 1000 + 1}
    ELSE {(v + 500) \div 1000}

\* (mutant) the medium-severity count is looked at first
_assess_severity_medium_first(high, med) ==
    IF med >= 2 THEN <<3, "Medium">>
    ELSE IF med = 1 THEN <<2, "Medium">>
    ELSE IF high >= 2 THEN <<5, "High">>
    ELSE IF high = 1 THEN <<4, "High">>
    ELSE <<1, "Low">>

\* The if/elif chain of _assess_severity over the two hit counts
_assess_severity(high, med) ==
    IF high >= 2 THEN <<5, "High">>
    ELSE IF high = 1 THEN <<4, "High">>
    ELSE IF med >= 2 THEN <<3, "Medium">>
    ELSE IF med = 1 THEN <<2, "Medium">>
    ELSE <<1, "Low">>

\* analyze_signal: lang = detect_language(text)
DetectLanguage ==
    /\ aPc = "start"
    /\ \E l \in Langs : lang' = l
    /\ aPc' = "match"
    /\ UNCHANGED <<hybridVars, category, confidence, severityVars, analysis, notAn>>

\* _hybrid_classify: the keyword matcher of the language on the text
MatchKeywords ==
    /\ aPc = "match"
    /\ \E hits \in TextHits(lang) :
          LET m == _match_category(hits)
          IN  /\ kw_category' = m[1]
              /\ keywords' = m[2]
    /\ aPc' = "predict"
    /\ UNCHANGED <<lang, ml_category, ml_confidence, category, confidence,
                   severityVars, analysis, notAn>>

\* _hybrid_classify: ml_category, ml_confidence = get_classifier().predict(text)
\* (the fitted scikit-learn pipeline: any category, any confidence)
Predict ==
    /\ aPc = "predict"
    /\ \E c \in Categories, p \in MlConfidences :
          /\ ml_category' = c
          /\ ml_confidence' = p
    /\ aPc' = "reconcile"
    /\ UNCHANGED <<lang, kw_category, keywords, category, confidence,
                   severityVars, analysis, notAn>>

\* (mutant) where the classifier's category wins, the keywords of the
\* keyword category are not returned
HybridClassifyOwnKeywords ==
    /\ aPc = "reconcile"
    /\ LET r == Reconcile(lang, kw_category, keywords, ml_category, ml_confidence)
       IN  /\ category' = r[1]
           /\ \E c \in Round2(Clamp(r[2])) : confidence' = c
           /\ keywords' = IF r[1] = kw_category THEN keywords ELSE <<>>
    /\ aPc' = "severity"
    /\ UNCHANGED <<lang, kw_category, ml_category, ml_confidence, severityVars,
                   analysis, notAn>>

\* _hybrid_classify: the reconciliation and
\* return final_category, keywords, round(min(final_confidence, 0.95), 2)
HybridClassify ==
    /\ aPc = "reconcile"
    /\ LET r == Reconcile(lang, kw_category, keywords, ml_category, ml_confidence)
       IN  /\ category' = r[1]
           /\ \E c \in Round2(Clamp(r[2])) : confidence' = c
    /\ aPc' = "severity"
    /\ UNCHANGED <<lang, hybridVars, severityVars, analysis, notAn>>

\* analyze_signal: risk_level, economic_impact = _assess_severity(text, lang)
AssessSeverity ==
    /\ aPc = "severity"
    /\ \E h \in 0..Min(MaxSevHits, SeverityCount[lang].high),
          m \in 0..Min(MaxSevHits, SeverityCount[lang].med) :
          LET s == _assess_severity(h, m)
          IN  /\ high_hits' = h
              /\ med_hits' = m
              /\ risk_level' = s[1]
              /\ economic_impact' = s[2]
    /\ aPc' = "build"
    /\ UNCHANGED <<lang, hybridVars, category, confidence, analysis, notAn>>

\* A term of a severity list: the list and the position in it.
SeverityTerms(l) ==
    {[list |-> "high", pos |-> p] : p \in 1..SeverityCount[l].high}
    \cup {[list |-> "med", pos |-> p] : p \in 1..SeverityCount[l].med}

\* The terms the lists write with a capital letter: "$2M", the 14th of
\* HIGH_SEVERITY.  Every other term of the four lists is its own lower case.
WrittenWithCapital(l, term) == l = "en" /\ term.list = "high" /\ term.pos = 14

\* A spelling of a term: all lower case, all upper case, or as the list
\* writes it when that is neither.  Chinese terms have one spelling.
Forms(l, term) ==
    IF l = "zh" THEN {"lower"}
    ELSE IF WrittenWithCapital(l, term) THEN {"lower", "upper", "written"}
    ELSE {"lower", "upper"}

\* the term as the list writes it
Written(l, term) ==
    [term |-> term, form |-> IF WrittenWithCapital(l, term) THEN "written" ELSE "lower"]

\* What a text is to _assess_severity: the severity terms that occur in it,
\* each in one spelling; up to n of them
Occurrences(l) == {[term |-> t, form |-> f] : t \in SeverityTerms(l), f \in {"lower", "upper", "written"}}
RECURSIVE SevTextsUpTo(_, _)
SevTextsUpTo(l, n) ==
    IF n = 0 THEN {{}}
    ELSE LET shorter == SevTextsUpTo(l, n - 1)
         IN  shorter \cup
             {tx \cup {o} : tx \in shorter,
                            o \in {x \in Occurrences(l) : x.form \in Forms(l, x.term)}}
SevTexts(l) ==
    {tx \in SevTextsUpTo(l, MaxSevTerms) :
        \A a, b \in tx : a.term = b.term => a = b}

\* text.lower(): every spelling becomes the lower-case one
Lower(tx) == {[term |-> o.term, form |-> "lower"] : o \in tx}

\* sum(1 for kw in LIST if kw in searched)
SeverityHits(l, list, searched) ==
    Cardinality({t \in SeverityTerms(l) : t.list = list /\ Written(l, t) \in searched})

\* _assess_severity(text, lang) on a text: text_lower = text.lower(); the
\* Chinese lists are looked up in text, the English ones in text_lower
AssessSeverityOfText ==
    /\ aPc = "severity"
    /\ LET text_lower == Lower(sev_text)
           searched == IF lang = "zh" THEN sev_text ELSE text_lower
           h == SeverityHits(lang, "high", searched)
           m == SeverityHits(lang, "med", searched)
           s == _assess_severity(h, m)
       IN  /\ high_hits' = h
           /\ med_hits' = m
           /\ risk_level' = s[1]
           /\ economic_impact' = s[2]
    /\ aPc' = "build"
    /\ UNCHANGED <<lang, hybridVars, category, confidence, analysis, notAn>>

\* _assess_severity is called on a text in a language
AnSeverity ==
    /\ aPc = "severity"
    /\ lang \in Langs
    /\ kw_category = "Infrastructure Failure"
    /\ keywords = <<>>
    /\ ml_category = "Crime"
    /\ ml_confidence = 0
    /\ category = "Infrastructure Failure"
    /\ confidence = 0
    /\ high_hits = 0
    /\ med_hits = 0
    /\ risk_level = 1
    /\ economic_impact = "Low"
    /\ analysis = NoObject
    /\ sev_text \in SevTexts(lang)

\* analyze_signal: return RiskAnalysis(...), which pydantic validates
\* (the summary string is left out)
BuildAnalysis ==
    /\ aPc = "build"
    /\ analysis' =
          IF RiskAnalysisValid(risk_level, confidence)
          THEN [category |-> category,
                risk_level |-> risk_level,
                economic_impact |-> economic_impact,
                confidence |-> confidence,
                keywords |-> IF keywords # <<>> THEN keywords
                             ELSE <<[lower |-> category]>>]
          ELSE ValidationError
    /\ aPc' = "done"
    /\ UNCHANGED <<lang, hybridVars, category, confidence, severityVars, notAn>>

\* A RiskAnalysis(...) construction on arguments inside and outside the
\* declared ranges: risk_level up to MaxOutside below 1 and above 5,
\* confidence up to MaxOutside hundredths below 0.0 and above 1.0
AnConstruct ==
    /\ aPc = "build"
    /\ lang = "en"
    /\ kw_category = "Crime"
    /\ keywords = <<>>
    /\ ml_category = "Crime"
    /\ ml_confidence = 0
    /\ category = "Crime"
    /\ confidence \in (0 - MaxOutside)..(100 + MaxOutside)
    /\ high_hits = 0
    /\ med_hits = 0
    /\ risk_level \in (1 - MaxOutside)..(5 + MaxOutside)
    /\ economic_impact \in EconomicImpact
    /\ analysis = NoObject

\* Before the call: nothing computed yet.
AnIdle ==
    /\ aPc = "start"
    /\ lang = "en"
    /\ kw_category = "Infrastructure Failure"
    /\ keywords = <<>>
    /\ ml_category = "Crime"
    /\ ml_confidence = 0
    /\ category = "Infrastructure Failure"
    /\ confidence = 0
    /\ high_hits = 0
    /\ med_hits = 0
    /\ risk_level = 1
    /\ economic_impact = "Low"
    /\ analysis = NoObject

\* ------------------------------------------------------------------------
\* backend/analyzer.py _match_category, backend/language.py match_zh_category:
\* the loop over the keyword table, one category at a time
\* ------------------------------------------------------------------------
\* A keyword is written as its position in its category's list (1-based).
\* Keywords of the tables that contain another keyword of the tables as a
\* substring: a text that has the first has the second.
\*   en: 'robbery' > 'robber', 'domestic violence' > 'violence',
\*       'identity theft' > 'theft' (Crime), 'investment fraud' > 'fraud',
\*       'power outage' > 'outage'
\*   zh: fraud 5 > crime 2, fraud 7 > fraud 12, fraud 10 > fraud 1,
\*       fraud 11 > fraud 1
Contains ==
    [en |-> {[cat |-> "Crime", pos |-> 1, incat |-> "Crime", inpos |-> 2],
             [cat |-> "Crime", pos |-> 14, incat |-> "Crime", inpos |-> 6],
             [cat |-> "Fraud", pos |-> 5, incat |-> "Crime", inpos |-> 3],
             [cat |-> "Fraud", pos |-> 9, incat |-> "Fraud", inpos |-> 2],
             [cat |-> "Infrastructure Failure", pos |-> 5,
              incat |-> "Infrastructure Failure", inpos |-> 12]},
     zh |-> {[cat |-> "Fraud", pos |-> 5, incat |-> "Crime", inpos |-> 2],
             [cat |-> "Fraud", pos |-> 7, incat |-> "Fraud", inpos |-> 12],
             [cat |-> "Fraud", pos |-> 10, incat |-> "Fraud", inpos |-> 1],
             [cat |-> "Fraud", pos |-> 11, incat |-> "Fraud", inpos |-> 1]}]

\* What a text is to one iteration of the loop: the keywords of the category's
\* list that occur in it, taken among the first MaxKwPos of the list.  A
\* keyword that contains another one comes only with the one it contains;
\* the two that contain a keyword of another category are left out.
HitSets(l, cat) ==
    {hs \in SUBSET (1..Min(MaxKwPos, KeywordCount[l][cat])) :
        \A r \in Contains[l] :
            (r.cat = cat /\ r.pos \in hs) => (r.incat = cat /\ r.inpos \in hs)}

\* hits = [kw for kw in keywords if kw in text]: the list keeps table order
RECURSIVE Ascending(_)
Ascending(S) ==
    IF S = {} THEN <<>>
    ELSE LET m == CHOOSE x \in S : \A y \in S : x <= y
         IN  <<m>> \o Ascending(S \ {m})

\* (mutant) a tie replaces the best category
BetterOrEqual(n, best) == n >= best

\* if len(hits) > best_score
Better(n, best) == n > best

\* (mutant) the slice is one too long
FirstSix(kws) == SubSeq(kws, 1, Min(6, Len(kws)))

\* matched_kw[:5]
FirstFive(kws) == SubSeq(kws, 1, Min(5, Len(kws)))

\* for cat, keywords in TABLE.items(): one iteration
MatchCategory ==
    /\ mPc = "loop"
    /\ mi < Len(RiskCategory)
    /\ LET cat == RiskCategory[mi + 1]
       IN  \E hs \in HitSets(mLang, cat) :
             LET hits == Ascending(hs)
             IN  /\ hit_count' = [hit_count EXCEPT ![cat] = Len(hits)]
                 /\ IF Better(Len(hits), best_score)
                    THEN /\ best_score' = Len(hits)
                         /\ best_cat' = cat
                         /\ matched_kw' = hits
                    ELSE UNCHANGED <<best_score, best_cat, matched_kw>>
    /\ mi' = mi + 1
    /\ UNCHANGED <<mPc, mLang, matched, notMt>>

\* return best_cat, matched_kw[:5]
MatchReturn ==
    /\ mPc = "loop"
    /\ mi = Len(RiskCategory)
    /\ matched' = <<best_cat, FirstFive(matched_kw)>>
    /\ mPc' = "done"
    /\ UNCHANGED <<mLang, mi, best_cat, best_score, matched_kw, hit_count, notMt>>

\* The locals at the top of the function: best_cat = infrastructure,
\* best_score = 0, matched_kw = []
MtLocals ==
    /\ mi = 0
    /\ best_cat = "Infrastructure Failure"
    /\ best_score = 0
    /\ matched_kw = <<>>
    /\ hit_count = [c \in Categories |-> 0]
    /\ matched = NoObject

MtIdle == mPc = "idle" /\ mLang = "en" /\ MtLocals

MtStart == mPc = "loop" /\ mLang \in Langs /\ MtLocals

\* ------------------------------------------------------------------------
\* config.py, backend/scorer.py
\* ------------------------------------------------------------------------
\* config.py: the weights, in tenths
W_RISK == 4
W_ECONOMIC == 3
W_CREDIBILITY == 2
W_RECENCY == 1

\* config.py: SOURCE_CREDIBILITY, in hundredths
SOURCE_CREDIBILITY ==
    [s \in SourceType |->
        CASE s = "government" -> 100 [] s = "news" -> 85
          [] s = "citizen_report" -> 70 [] s = "social_media" -> 50]

\* scorer.py: ECONOMIC_WEIGHT_MAP, in tenths
ECONOMIC_WEIGHT_MAP ==
    [e \in EconomicImpact |->
        CASE e = "Low" -> 2 [] e = "Medium" -> 5 [] e = "High" -> 10]

\* A datetime: the clock reading it shows (minutes), whether it carries a
\* time zone, and that zone's offset from UTC (minutes).
\* The instant it denotes when a naive one is read as UTC:
\*   ts = timestamp.replace(tzinfo=timezone.utc) if timestamp.tzinfo is None
\*        else timestamp
AsUtc(ts) == IF ts.aware THEN ts.clock - ts.utcoffset ELSE ts.clock

\* (mutant) the weights of the 24h and the 72h tier exchanged
_recency_weight_swapped(ts, n) ==
    LET minutes_ago == n - AsUtc(ts)
    IN  IF minutes_ago <= 60 THEN 10
        ELSE IF minutes_ago <= 6 * 60 THEN 8
        ELSE IF minutes_ago <= 24 * 60 THEN 3
        ELSE IF minutes_ago <= 72 * 60 THEN 5
        ELSE 1

\* (mutant) the upper bounds exclusive: hours_ago < 1, < 6, < 24, < 72
_recency_weight_exclusive(ts, n) ==
    LET minutes_ago == n - AsUtc(ts)
    IN  IF minutes_ago < 60 THEN 10
        ELSE IF minutes_ago < 6 * 60 THEN 8
        ELSE IF minutes_ago < 24 * 60 THEN 5
        ELSE IF minutes_ago < 72 * 60 THEN 3
        ELSE 1

\* _recency_weight(timestamp) with the clock reading n, in tenths;
\* hours_ago <= h is minutes_ago <= 60 * h
_recency_weight(ts, n) ==
    LET minutes_ago == n - AsUtc(ts)
    IN  IF minutes_ago <= 60 THEN 10
        ELSE IF minutes_ago <= 6 * 60 THEN 8
        ELSE IF minutes_ago <= 24 * 60 THEN 5
        ELSE IF minutes_ago <= 72 * 60 THEN 3
        ELSE 1

\* (mutant) the risk term left out of the sum
compute_priority_no_risk(s, a, n) ==
    LET e == ECONOMIC_WEIGHT_MAP[a.economic_impact]
        c == SOURCE_CREDIBILITY[s.source]
        t == _recency_weight(s.timestamp, n)
    IN  Min(W_ECONOMIC * e * 100 + W_CREDIBILITY * c * 10 + W_RECENCY * t * 100, 10000)

\* (mutant) the recency term counted twice: the sum can pass 1.0
compute_priority_recency_twice(s, a, n) ==
    LET r == a.risk_level
        e == ECONOMIC_WEIGHT_MAP[a.economic_impact]
        c == SOURCE_CREDIBILITY[s.source]
        t == _recency_weight(s.timestamp, n)
    IN  Min(W_RISK * r * 200 + W_ECONOMIC * e * 100
            + W_CREDIBILITY * c * 10 + 2 * W_RECENCY * t * 100, 10000)

\* (mutant) the weights of the risk and of the economic term exchanged
compute_priority_weights_exchanged(s, a, n) ==
    LET r == a.risk_level
        e == ECONOMIC_WEIGHT_MAP[a.economic_impact]
        c == SOURCE_CREDIBILITY[s.source]
        t == _recency_weight(s.timestamp, n)
    IN  Min(W_ECONOMIC * r * 200 + W_RISK * e * 100
            + W_CREDIBILITY * c * 10 + W_RECENCY * t * 100, 10000)

\* compute_priority(signal, analysis) with the clock reading n, units of 1e-4:
\*   r = risk_level / 5.0 (fifths), e (tenths), c (hundredths), t (tenths)
\*   round(min(W_RISK*r + W_ECONOMIC*e + W_CREDIBILITY*c + W_RECENCY*t, 1.0), 4)
\* Every term is a whole number of 1e-4, so round(.., 4) changes nothing.
compute_priority(s, a, n) ==
    LET r == a.risk_level
        e == ECONOMIC_WEIGHT_MAP[a.economic_impact]
        c == SOURCE_CREDIBILITY[s.source]
        t == _recency_weight(s.timestamp, n)
        sc == W_RISK * r * 200 + W_ECONOMIC * e * 100
              + W_CREDIBILITY * c * 10 + W_RECENCY * t * 100
    IN  Min(sc, 10000)

\* datetime.now(timezone.utc): the clock does not go back
ClockReadings == {n \in now..(now + 1) : n <= MaxClock}

\* Signals: timestamps around every step of the recency function, one of
\* them in the future; naive, UTC and UTC+8
MinutesAgo == {0 - 30, 0, 60, 61, 360, 361, 1440, 1441, 4320, 4321}
Timestamps ==
    {[clock |-> off - m, aware |-> aw, utcoffset |-> off] :
        m \in MinutesAgo,
        aw \in BOOLEAN,
        off \in {0, 480}} \ {[clock |-> 480 - m, aware |-> FALSE, utcoffset |-> 480] :
                                 m \in MinutesAgo}
Signals(ids) ==
    {[id |-> i, source |-> s, timestamp |-> ts] :
        i \in ids, s \in SourceType, ts \in Timestamps}
\* Every valid RiskAnalysis, as far as the scorer reads it
Analyses ==
    {[risk_level |-> rl, economic_impact |-> e] : rl \in 1..5, e \in EconomicImpact}

\* score = compute_priority(signal, analysis)
ComputePriority ==
    /\ prPc = "call"
    /\ \E n \in ClockReadings :
          /\ now' = n
          /\ score' = compute_priority(sig, ana, n)
    /\ prPc' = "scored"
    /\ UNCHANGED <<sig, ana, alert, notPr>>

\* main.py analyze_single:
\*   return PrioritizedAlert(signal=, analysis=, priority_score=score, rank=0)
BuildAlert ==
    /\ prPc = "scored"
    /\ alert' = PrioritizedAlert(sig, ana, score, 0)
    /\ prPc' = "done"
    /\ UNCHANGED <<now, sig, ana, score, notPr>>

PrIdle ==
    /\ prPc = "idle"
    /\ sig = [id |-> 1, source |-> "news",
              timestamp |-> [clock |-> 0, aware |-> FALSE, utcoffset |-> 0]]
    /\ ana = [risk_level |-> 1, economic_impact |-> "Low"]
    /\ score = 0
    /\ alert = NoObject

PrStart ==
    /\ prPc = "call"
    /\ sig \in Signals({1})
    /\ ana \in Analyses
    /\ score = 0
    /\ alert = NoObject

\* (mutant) sorted ascending and then reversed: equal scores change places
InsertByScoreReversing(sorted, a) ==
    LET before == {k \in 1..Len(sorted) : sorted[k].priority_score > a.priority_score}
        n == Cardinality(before)
    IN  SubSeq(sorted, 1, n) \o <<a>> \o SubSeq(sorted, n + 1, Len(sorted))

\* (mutant) an element whose key is already in the list is dropped
InsertByScoreDropping(sorted, a) ==
    LET before == {k \in 1..Len(sorted) : sorted[k].priority_score > a.priority_score}
        n == Cardinality(before)
    IN  IF \E k \in 1..Len(sorted) : sorted[k].priority_score = a.priority_score
        THEN sorted
        ELSE SubSeq(sorted, 1, n) \o <<a>> \o SubSeq(sorted, n + 1, Len(sorted))

\* (mutant) ascending: reverse=True forgotten
InsertByScoreAscending(sorted, a) ==
    LET before == {k \in 1..Len(sorted) : sorted[k].priority_score <= a.priority_score}
        n == Cardinality(before)
    IN  SubSeq(sorted, 1, n) \o <<a>> \o SubSeq(sorted, n + 1, Len(sorted))

\* One insertion of list.sort(key=priority_score, reverse=True): `a`, which
\* came after every element of `sorted` in the list, goes behind the elements
\* whose key is greater than or equal to its own (the sort is stable).
InsertByScore(sorted, a) ==
    LET before == {k \in 1..Len(sorted) : sorted[k].priority_score >= a.priority_score}
        n == Cardinality(before)
    IN  SubSeq(sorted, 1, n) \o <<a>> \o SubSeq(sorted, n + 1, Len(sorted))

\* alerts.sort(key=lambda a: a.priority_score, reverse=True)
RECURSIVE SortAlerts(_)
SortAlerts(as) ==
    IF as = <<>> THEN <<>>
    ELSE InsertByScore(SortAlerts(SubSeq(as, 1, Len(as) - 1)), as[Len(as)])

\* The lists the batch is tried on: Signal ids are the positions in the list
\* (ids are unique); the scores of the elements tie between equal and
\* between different elements, and two timestamps sit on a recency step (the
\* one-hour step and the six-hour step, the largest drop between neighbours).
BatchSignal(i) ==
    {[id |-> i, source |-> "news",
      timestamp |-> [clock |-> 0 - m, aware |-> TRUE, utcoffset |-> 0]] :
        m \in {60, 360, 2880}}
BatchAnalyses ==
    {[risk_level |-> rl, economic_impact |-> e] :
        rl \in {1, 2}, e \in {"Medium", "High"}}
PairLists ==
    UNION {{ps \in [1..n -> (UNION {BatchSignal(i) : i \in 1..n}) \X BatchAnalyses] :
               \A i \in 1..n : ps[i][1].id = i} : n \in 0..MaxPairs}

\* for signal, analysis in pairs: one iteration
\*   score = compute_priority(signal, analysis)
\*   alerts.append(PrioritizedAlert(signal=, analysis=, priority_score=score))
ScorePair ==
    /\ bPc = "score"
    /\ Len(alerts) < Len(pairs)
    /\ LET p == pairs[Len(alerts) + 1]
       IN  \E n \in ClockReadings :
             LET a == PrioritizedAlert(p[1], p[2], compute_priority(p[1], p[2], n), 0)
             IN  /\ now' = n
                 /\ IF ~IsObject(a)
                    THEN bPc' = "raised" /\ alerts' = alerts
                    ELSE bPc' = bPc /\ alerts' = Append(alerts, a)
    /\ UNCHANGED <<pairs, ri, notBa>>

\* the loop is over: alerts.sort(...)
SortStep ==
    /\ bPc = "score"
    /\ Len(alerts) = Len(pairs)
    /\ alerts' = SortAlerts(alerts)
    /\ ri' = 0
    /\ bPc' = "rank"
    /\ UNCHANGED <<now, pairs, notBa>>

\* for i, alert in enumerate(alerts): alert.rank = i + 1   (one iteration)
AssignRank ==
    /\ bPc = "rank"
    /\ ri < Len(alerts)
    /\ alerts' = [alerts EXCEPT ![ri + 1].rank = ri + 1]
    /\ ri' = ri + 1
    /\ UNCHANGED <<now, bPc, pairs, notBa>>

\* return alerts
ReturnAlerts ==
    /\ bPc = "rank"
    /\ ri = Len(alerts)
    /\ bPc' = "done"
    /\ UNCHANGED <<now, pairs, alerts, ri, notBa>>

BaIdle ==
    /\ bPc = "idle"
    /\ pairs = <<>>
    /\ alerts = <<>>
    /\ ri = 0

BaStart ==
    /\ bPc = "score"
    /\ pairs \in PairLists
    /\ alerts = <<>>
    /\ ri = 0

\* A batch call and a single-signal call of the same process: the lists of
\* PairLists made of one-hour-old signals of high impact, and one request
\* to the /analyze endpoint
FewPairLists ==
    {ps \in PairLists :
        \A i \in 1..Len(ps) :
            /\ ps[i][1].timestamp.clock = 0 - 60
            /\ ps[i][2].economic_impact = "High"}

BaStartFew ==
    /\ bPc = "score"
    /\ pairs \in FewPairLists
    /\ alerts = <<>>
    /\ ri = 0

PrStartOne ==
    /\ prPc = "call"
    /\ sig \in BatchSignal(1)
    /\ ana \in BatchAnalyses
    /\ score = 0
    /\ alert = NoObject

\* ------------------------------------------------------------------------
\* backend/language.py detect_language
\* ------------------------------------------------------------------------
\* What a text is to detect_language: `lead` whitespace characters, then a
\* core that starts and ends with a non-whitespace character and holds `cjk`
\* characters of U+4E00..U+9FFF and `other` characters outside that range,
\* then `trail` whitespace characters.  An all-whitespace text has an empty
\* core.
Texts ==
    [lead : 0..MaxPad, cjk : 0..MaxCjk, other : 0..MaxOther, trail : 0..MaxPad]

\* len(text)
TextLen(tx) == tx.lead + tx.cjk + tx.other + tx.trail

\* (mutant) the text is measured as it is: len(text)
StripLenWhole(tx) == TextLen(tx)

\* len(text.strip())
StripLen(tx) == tx.cjk + tx.other

\* detect_language(text):
\*   cjk_count = len(re.findall(r'[U+4E00-U+9FFF]', text))
\*   total = max(len(text.strip()), 1)
\*   "zh" if cjk_count / total > 0.15 else "en"
\* (the quotient of two small integers compares with 0.15 as the fraction
\* compares with 15/100)
detect_language(tx) ==
    LET cjk_count == tx.cjk
        total == Max(StripLen(tx), 1)
    IN  IF cjk_count * 100 > 15 * total THEN "zh" ELSE "en"

\* the call and its return
DetectLanguageOfText ==
    /\ lPc = "call"
    /\ detected' = detect_language(text)
    /\ lPc' = "done"
    /\ UNCHANGED <<text, notLg>>

LgStart ==
    /\ lPc = "call"
    /\ text \in Texts
    /\ detected = ""

LgIdle ==
    /\ lPc = "idle"
    /\ text = [lead |-> 0, cjk |-> 0, other |-> 0, trail |-> 0]
    /\ detected = ""

\* ------------------------------------------------------------------------
\* backend/main.py analyze_batch, dashboard/app.py
\* ------------------------------------------------------------------------
\* The signal files the batch is tried on: as the lists given to
\* prioritize_alerts, a signal's id is its position in the file.
SignalLists ==
    UNION {{ss \in [1..n -> UNION {BatchSignal(i) : i \in 1..n}] :
               \A i \in 1..n : ss[i].id = i} : n \in 0..MaxPairs}

\* (mutant) the handler leaves the loop: `break` for `continue`
AfterRaiseBreak(i, n) == n

\* except Exception: continue  -- the loop goes on with the next signal
AfterRaise(i, n) == i + 1

\* for sig in signals: one iteration in which analyze_signal(sig) returns
\*   analysis = analyze_signal(sig); pairs.append((sig, analysis))
AnalyzeSignal ==
    /\ bPc = "analyze"
    /\ si < Len(signals)
    /\ \E a \in BatchAnalyses : pairs' = Append(pairs, <<signals[si + 1], a>>)
    /\ si' = si + 1
    /\ UNCHANGED <<now, bPc, alerts, ri, signals, skipped, notAb>>

\* for sig in signals: one iteration in which analyze_signal(sig) raises
\*   except Exception: continue
AnalyzeRaises ==
    /\ bPc = "analyze"
    /\ si < Len(signals)
    /\ skipped' = skipped \cup {signals[si + 1].id}
    /\ si' = AfterRaise(si, Len(signals))
    /\ UNCHANGED <<now, bPc, pairs, alerts, ri, signals, notAb>>

\* the loop is over: return prioritize_alerts(pairs)
CallPrioritize ==
    /\ bPc = "analyze"
    /\ si = Len(signals)
    /\ bPc' = "score"
    /\ UNCHANGED <<now, pairs, alerts, ri, abVars, notAb>>

AbIdle ==
    /\ signals = <<>>
    /\ si = 0
    /\ skipped = {}

\* signals = _load_signals(); pairs = []
AbStart ==
    /\ bPc = "analyze"
    /\ pairs = <<>>
    /\ alerts = <<>>
    /\ ri = 0
    /\ signals \in SignalLists
    /\ si = 0
    /\ skipped = {}

\* ------------------------------------------------------------------------
\* backend/news_fetcher.py
\* ------------------------------------------------------------------------
\* RISK_QUERIES, each query string by its first topic word
RISK_QUERIES == <<"urban", "traffic", "fraud", "infrastructure">>

\* The ways a request of fetch_news fails: httpx.get raises (no connection,
\* timeout), resp.raise_for_status() raises (status not 2xx), resp.json()
\* raises (the body is not JSON), data.get raises (the JSON is not an object)
FailureKinds == {"network_error", "timeout", "http_status", "bad_json", "not_object"}

\* An article of the answer to query q: the k-th, with a title or a
\* description (its text names it) or with neither
Article(q, k, blank) == [text |-> <<q, k>>, blank |-> blank]

\* The article lists the API can answer query q with: up to MaxArticles
\* articles
ArticleLists(q) ==
    UNION {{as \in [1..n -> {Article(q, k, b) : k \in 1..n, b \in BOOLEAN}] :
               \A k \in 1..n : as[k].text = <<q, k>>} : n \in 0..MaxArticles}

\* What the API can do on query q: answer 200 with a list of articles, or
\* fail; an error status can come with a body that holds an article
Responses(q) ==
    {[kind |-> "ok", articles |-> as] : as \in ArticleLists(q)}
    \cup {[kind |-> k, articles |-> <<>>] : k \in FailureKinds}
    \cup {[kind |-> "http_status", articles |-> <<Article(q, 1, FALSE)>>]}

\* (mutant) only the transport and status errors of httpx are caught:
\* except httpx.HTTPError
CaughtHttpOnly(kind) == kind \in {"network_error", "timeout", "http_status"}

\* except Exception: every failure kind is caught
Caught(kind) == kind \in FailureKinds

\* fetch_news(query, ...) on the API's response: the list returned, or the
\* exception that leaves the function
fetch_news(resp) ==
    IF resp.kind = "ok" THEN [raised |-> FALSE, value |-> resp.articles]
    ELSE IF Caught(resp.kind) THEN [raised |-> FALSE, value |-> <<>>]
    ELSE [raised |-> TRUE, value |-> <<>>]

\* The decimal digits of a natural number, the most significant first
RECURSIVE DecimalDigits(_)
DecimalDigits(n) ==
    IF n < 10 THEN <<n>> ELSE Append(DecimalDigits(n \div 10), n % 10)

\* The format specification 03d: zeros in front up to a width of three,
\* nothing cut off a longer number
ZeroPad3(ds) ==
    IF Len(ds) >= 3 THEN ds
    ELSE [k \in 1..3 |-> IF k <= 3 - Len(ds) THEN 0 ELSE ds[k - (3 - Len(ds))]]

\* f"NEWS-{idx:03d}": the prefix and the characters of the number
NewsId(i) == [prefix |-> "NEWS-", digits |-> ZeroPad3(DecimalDigits(i))]

\* article_to_signal(article, idx): None (here NoObject) for an article
\* without text, else the Signal with id NEWS-idx
article_to_signal(article, i) ==
    IF article.blank THEN NoObject
    ELSE [id |-> NewsId(i), text |-> article.text, source |-> "news"]

\* for query in RISK_QUERIES: articles = fetch_news(query, ...)
FetchNews ==
    /\ nPc = "query"
    /\ qi < Len(RISK_QUERIES)
    /\ \E resp \in Responses(qi + 1) :
          LET r == fetch_news(resp)
          IN  /\ responses' = Append(responses, resp)
              /\ articles' = r.value
              /\ nPc' = IF r.raised THEN "raised" ELSE "articles"
    /\ qi' = qi + 1
    /\ ai' = 0
    /\ UNCHANGED <<idx, news, notNw>>

\* (mutant) idx += 1 outside the `if sig:` block: rejected articles use up
\* a number
ConvertArticleCounting ==
    /\ nPc = "articles"
    /\ ai < Len(articles)
    /\ LET s == article_to_signal(articles[ai + 1], idx)
       IN  news' = IF IsObject(s) THEN Append(news, s) ELSE news
    /\ idx' = idx + 1
    /\ ai' = ai + 1
    /\ UNCHANGED <<nPc, qi, responses, articles, notNw>>

\* for article in articles: one iteration
\*   sig = article_to_signal(article, idx)
\*   if sig: signals.append(sig); idx += 1
ConvertArticle ==
    /\ nPc = "articles"
    /\ ai < Len(articles)
    /\ LET s == article_to_signal(articles[ai + 1], idx)
       IN  IF IsObject(s)
           THEN news' = Append(news, s) /\ idx' = idx + 1
           ELSE UNCHANGED <<news, idx>>
    /\ ai' = ai + 1
    /\ UNCHANGED <<nPc, qi, responses, articles, notNw>>

\* the inner loop is over: the next query
NextQuery ==
    /\ nPc = "articles"
    /\ ai = Len(articles)
    /\ nPc' = "query"
    /\ UNCHANGED <<qi, responses, articles, ai, idx, news, notNw>>

\* the outer loop is over: return signals
ReturnNews ==
    /\ nPc = "query"
    /\ qi = Len(RISK_QUERIES)
    /\ nPc' = "done"
    /\ UNCHANGED <<qi, responses, articles, ai, idx, news, notNw>>

\* signals = []; idx = 1
NwLocals ==
    /\ qi = 0
    /\ responses = <<>>
    /\ articles = <<>>
    /\ ai = 0
    /\ idx = 1
    /\ news = <<>>

NwIdle == nPc = "idle" /\ NwLocals

NwStart == nPc = "query" /\ NwLocals

\* ------------------------------------------------------------------------
\* Specifications
\* ------------------------------------------------------------------------
\* Nothing has been called yet.
\* ------------------------------------------------------------------------
\* backend/analyzer.py and backend/ml_classifier.py: analyze_signal calls of
\* concurrent requests, which share the classifier of get_classifier()
\* ------------------------------------------------------------------------
Analysts == 1..Min(NumAnalysts, NumCallers)

\* What a signal is to analyze_signal: the language of its text, the
\* keywords and the severity terms that occur in it, and what the pipeline
\* fitted on TRAINING_DATA computes for it (fit is a function of the
\* training data, which is a constant of the module, so every fitted
\* RiskClassifier gives a text the same class and the same probability).
RequestSignals ==
    {[id |-> 1, lang |-> "en",
      hits |-> [c \in Categories |-> IF c = "Crime" THEN 1 ELSE 0],
      high |-> 1, med |-> 0,
      ml_category |-> "Fraud", ml_confidence |-> 8125],
     [id |-> 2, lang |-> "zh",
      hits |-> [c \in Categories |-> IF c = "Traffic" THEN 2 ELSE 0],
      high |-> 0, med |-> 2,
      ml_category |-> "Crime", ml_confidence |-> 5000]}

NotFittedError == [error |-> "NotFittedError"]

\* (mutant) a predict that leaves the pipeline unfitted
pipeline_after_predict_unfitted(obj) == [obj EXCEPT !.trained = FALSE]

\* The RiskClassifier object after predict(text): pipeline.predict and
\* pipeline.predict_proba read the fitted pipeline and assign nothing
pipeline_after_predict(obj) == obj

\* RiskClassifier.predict(text) on an object: the category and the
\* confidence, or the error scikit-learn raises on a pipeline that is not fitted
predict(obj, s) ==
    IF obj.trained
    THEN [category |-> s.ml_category, confidence |-> s.ml_confidence]
    ELSE NotFittedError

\* analyze_signal(signal) given what predict returned.  round() is a function
\* of its argument: on a tie it gives one of the two neighbours, the same one
\* at every call.
AnalysisOf(s, prediction) ==
    IF ~IsObject(prediction) THEN prediction
    ELSE LET m == _match_category(s.hits)
             r == Reconcile(s.lang, m[1], m[2], prediction.category,
                            prediction.confidence)
             conf == CHOOSE c \in Round2(Clamp(r[2])) : TRUE
             sev == _assess_severity(s.high, s.med)
         IN  [category |-> r[1],
              risk_level |-> sev[1],
              economic_impact |-> sev[2],
              confidence |-> conf,
              keywords |-> IF m[2] # <<>> THEN m[2] ELSE <<[lower |-> r[1]]>>]

\* analyze_signal calls made so far, finished or not
RECURSIVE CallsMade(_)
CallsMade(n) ==
    IF n = 0 THEN 0
    ELSE Len(analyses[n]) + (IF IsObject(job[n]) THEN 1 ELSE 0) + CallsMade(n - 1)

\* A request thread calls analyze_signal(signal); _hybrid_classify runs the
\* keyword matcher and enters get_classifier()
Analyze(t) ==
    /\ pc[t] = "idle"
    /\ ~IsObject(job[t])
    /\ CallsMade(NumCallers) < MaxAnalyses
    /\ \E s \in RequestSignals : job' = [job EXCEPT ![t] = s]
    /\ pc' = [pc EXCEPT ![t] = "test"]
    /\ UNCHANGED <<classifier, heap, local, got, analyses,
                   anVars, now, prVars, baVars, mtVars, lgVars, abVars, nwVars, svVars>>

\* get_classifier() has returned: clf.predict(text), the reconciliation, the
\* severity assessment and return RiskAnalysis(...)
ClassifyAndReturn(t) ==
    /\ pc[t] = "idle"
    /\ IsObject(job[t])
    /\ LET clf == got[t][Len(got[t])]
           prediction == predict(heap[clf], job[t])
       IN  /\ heap' = [heap EXCEPT ![clf] = pipeline_after_predict(heap[clf])]
           /\ analyses' = [analyses EXCEPT ![t] =
                 Append(@, [signal |-> job[t],
                            analysis |-> AnalysisOf(job[t], prediction)])]
    /\ job' = [job EXCEPT ![t] = NoObject]
    /\ UNCHANGED <<classifier, pc, local, got,
                   anVars, now, prVars, baVars, mtVars, lgVars, abVars, nwVars, svVars>>

SvIdle == sev_text = {}
CcIdle == job = [t \in Callers |-> NoObject] /\ analyses = [t \in Callers |-> <<>>]
OthersIdle == MtIdle /\ LgIdle /\ AbIdle /\ NwIdle /\ SvIdle /\ CcIdle
Init == ClsInit /\ AnIdle /\ now = 0 /\ PrIdle /\ BaIdle /\ OthersIdle

\* Callers run get_classifier() concurrently (the endpoints of main.py are
\* plain `def` handlers, which FastAPI runs on a thread pool).
Next ==
    \E t \in Callers :
        \/ Call(t)
        \/ CheckNone(t)
        \/ Construct(t)
        \/ Train(t)
        \/ Store(t)
        \/ Return(t)

Spec == Init /\ [][Next]_vars

\* Calls never overlap: one is started only when none is in progress.
NextSequential ==
    \E t \in Callers :
        \/ CallSeq(t)
        \/ CheckNone(t)
        \/ Construct(t)
        \/ Train(t)
        \/ Store(t)
        \/ Return(t)

SpecSequential == Init /\ [][NextSequential]_vars

\* One analyze_signal call.
NextAnalyzer ==
    \/ DetectLanguage
    \/ MatchKeywords
    \/ Predict
    \/ HybridClassify
    \/ AssessSeverity
    \/ BuildAnalysis

SpecAnalyzer == Init /\ [][NextAnalyzer]_vars

\* One compute_priority call and the alert made of it, for every signal and
\* analysis.
InitPriority == ClsInit /\ AnIdle /\ now = 0 /\ PrStart /\ BaIdle /\ OthersIdle
NextPriority ==
    \/ ComputePriority
    \/ BuildAlert

SpecPriority == InitPriority /\ [][NextPriority]_vars

\* One prioritize_alerts call.
InitBatch == ClsInit /\ AnIdle /\ now = 0 /\ PrIdle /\ BaStart /\ OthersIdle
NextBatch ==
    \/ ScorePair
    \/ SortStep
    \/ AssignRank
    \/ ReturnAlerts

SpecBatch == InitBatch /\ [][NextBatch]_vars

\* One call of a keyword matcher, English or Chinese.
InitMatcher ==
    /\ ClsInit /\ AnIdle /\ now = 0 /\ PrIdle /\ BaIdle
    /\ MtStart /\ LgIdle /\ AbIdle /\ NwIdle /\ SvIdle /\ CcIdle
NextMatcher ==
    \/ MatchCategory
    \/ MatchReturn

SpecMatcher == InitMatcher /\ [][NextMatcher]_vars

\* One analyze_batch call: the loop over the signals, then prioritize_alerts.
InitAnalyzeBatch ==
    /\ ClsInit /\ AnIdle /\ now = 0 /\ PrIdle
    /\ AbStart /\ MtIdle /\ LgIdle /\ NwIdle /\ SvIdle /\ CcIdle
NextAnalyzeBatch ==
    \/ AnalyzeSignal
    \/ AnalyzeRaises
    \/ CallPrioritize
    \/ ScorePair
    \/ SortStep
    \/ AssignRank
    \/ ReturnAlerts

SpecAnalyzeBatch == InitAnalyzeBatch /\ [][NextAnalyzeBatch]_vars

\* One RiskAnalysis construction, valid or not.
InitValidation ==
    /\ ClsInit /\ AnConstruct /\ now = 0 /\ PrIdle /\ BaIdle /\ OthersIdle
NextValidation ==
    \/ BuildAnalysis

SpecValidation == InitValidation /\ [][NextValidation]_vars

\* One detect_language call.
InitLanguage ==
    /\ ClsInit /\ AnIdle /\ now = 0 /\ PrIdle /\ BaIdle
    /\ MtIdle /\ LgStart /\ AbIdle /\ NwIdle /\ SvIdle /\ CcIdle
NextLanguage ==
    \/ DetectLanguageOfText

SpecLanguage == InitLanguage /\ [][NextLanguage]_vars

\* One fetch_risk_news call.
InitNews ==
    /\ ClsInit /\ AnIdle /\ now = 0 /\ PrIdle /\ BaIdle
    /\ MtIdle /\ LgIdle /\ AbIdle /\ NwStart /\ SvIdle /\ CcIdle
NextNews ==
    \/ FetchNews
    \/ ConvertArticle
    \/ NextQuery
    \/ ReturnNews

SpecNews == InitNews /\ [][NextNews]_vars

\* One _assess_severity call on a text.
InitSeverity ==
    /\ ClsInit /\ AnSeverity /\ now = 0 /\ PrIdle /\ BaIdle
    /\ MtIdle /\ LgIdle /\ AbIdle /\ NwIdle /\ CcIdle
NextSeverity ==
    \/ AssessSeverityOfText

SpecSeverity == InitSeverity /\ [][NextSeverity]_vars

\* A prioritize_alerts call and an analyze_single call, interleaved.
InitRank == ClsInit /\ AnIdle /\ now = 0 /\ PrStartOne /\ BaStartFew /\ OthersIdle
NextRank ==
    \/ ScorePair
    \/ SortStep
    \/ AssignRank
    \/ ReturnAlerts
    \/ ComputePriority
    \/ BuildAlert

SpecRank == InitRank /\ [][NextRank]_vars

\* concurrent requests, each analyzing signals with the shared classifier
NextConcurrent ==
    \/ \E t \in Analysts : Analyze(t)
    \/ \E t \in Analysts : CheckNone(t)
    \/ \E t \in Analysts : Construct(t)
    \/ \E t \in Analysts : Train(t)
    \/ \E t \in Analysts : Store(t)
    \/ \E t \in Analysts : Return(t)
    \/ \E t \in Analysts : ClassifyAndReturn(t)

SpecConcurrent == Init /\ [][NextConcurrent]_vars

\* ------------------------------------------------------------------------
\* Claims
\* ------------------------------------------------------------------------
\* The instances handed to callers so far.
Returned == UNION {{got[t][k] : k \in 1..Len(got[t])} : t \in Callers}

\* Number of training runs over all objects.
RECURSIVE FitsUpTo(_)
FitsUpTo(n) == IF n = 0 THEN 0 ELSE heap[n].fits + FitsUpTo(n - 1)
TotalFits == FitsUpTo(Len(heap))

\* C1: under concurrent first use of get_classifier(), in every
\* interleaving, at most one RiskClassifier is constructed, training runs at
\* most once, and all callers receive the same instance.
C1_InitializedAtMostOnce ==
    /\ Len(heap) <= 1
    /\ TotalFits <= 1
    /\ Cardinality(Returned) <= 1

C3_SortedAndRanked ==
    /\ bPc # "raised"
    /\ bPc = "done" =>
          /\ Len(alerts) = Len(pairs)
          /\ \A k \in 1..Len(alerts) : alerts[k].rank = k
          /\ \A j, k \in 1..Len(alerts) :
                j < k => alerts[j].priority_score >= alerts[k].priority_score

\* Three alerts returned, the last pair of the input ranked first and the
\* first pair ranked last, with three different scores.
C3_Witness ==
    /\ bPc = "done"
    /\ Len(alerts) = 3
    /\ alerts[1].signal.id = 3
    /\ alerts[3].signal.id = 1
    /\ alerts[1].priority_score > alerts[2].priority_score
    /\ alerts[2].priority_score > alerts[3].priority_score

\* C4: prioritize_alerts is stable: of two pairs with equal priority
\* scores, the one earlier in the input (the smaller Signal id) is earlier in
\* the output and has the smaller rank.
C4_Stable ==
    bPc = "done" =>
        \A j, k \in 1..Len(alerts) :
            (/\ alerts[j].priority_score = alerts[k].priority_score
             /\ alerts[j].signal.id < alerts[k].signal.id)
            => (j < k /\ alerts[j].rank < alerts[k].rank)

\* The last pair overtakes two pairs that tie, one of which differs from the
\* other in its analysis; the two keep their input order.
C4_Witness ==
    /\ bPc = "done"
    /\ Len(alerts) = 3
    /\ alerts[1].signal.id = 3
    /\ alerts[2].signal.id = 1
    /\ alerts[3].signal.id = 2
    /\ alerts[2].priority_score = alerts[3].priority_score
    /\ alerts[2].analysis # alerts[3].analysis

\* C5: for every valid Signal (any source, timestamp past or future) and
\* every valid RiskAnalysis, compute_priority returns a score in [0, 1], and
\* the PrioritizedAlert built with that score passes validation.
C5_ScoreInRange ==
    /\ prPc \in {"scored", "done"} => score \in 0..10000
    /\ prPc = "done" => (IsObject(alert) /\ alert.priority_score = score)

\* The largest score, 1.0, for a signal stamped in the future.
C5_Witness ==
    /\ prPc = "done"
    /\ IsObject(alert)
    /\ alert.priority_score = 10000
    /\ AsUtc(sig.timestamp) > now

\* The orders of the impact tiers and of the source kinds
ImpactTier(e) == CASE e = "Low" -> 1 [] e = "Medium" -> 2 [] e = "High" -> 3
Credibility(src) ==
    CASE src = "social_media" -> 1 [] src = "citizen_report" -> 2
      [] src = "news" -> 3 [] src = "government" -> 4

\* C6: compute_priority is non-decreasing in each input with the others
\* fixed: given the call that was made, the same call with a higher
\* risk_level, a higher impact tier, a more credible source or a later
\* timestamp (less time elapsed) scores at least as much.
C6_Monotone ==
    prPc \in {"scored", "done"} =>
        /\ \A rl \in 1..5 :
              rl >= ana.risk_level =>
                compute_priority(sig, [ana EXCEPT !.risk_level = rl], now) >= score
        /\ \A e \in EconomicImpact :
              ImpactTier(e) >= ImpactTier(ana.economic_impact) =>
                compute_priority(sig, [ana EXCEPT !.economic_impact = e], now) >= score
        /\ \A src \in SourceType :
              Credibility(src) >= Credibility(sig.source) =>
                compute_priority([sig EXCEPT !.source = src], ana, now) >= score
        /\ \A ts \in Timestamps :
              now - AsUtc(ts) <= now - AsUtc(sig.timestamp) =>
                compute_priority([sig EXCEPT !.timestamp = ts], ana, now) >= score

\* A call in the middle of every order: each input can still go up and down.
C6_Witness ==
    /\ prPc = "scored"
    /\ ana = [risk_level |-> 3, economic_impact |-> "Medium"]
    /\ sig.source = "news"
    /\ now - AsUtc(sig.timestamp) = 1441
    /\ score = 2400 + 1500 + 1700 + 300

\* _hybrid_classify has returned / _assess_severity has returned
Reconciled == aPc \in {"severity", "build", "done"}
Assessed == aPc \in {"build", "done"}
Agree == kw_category = ml_category

\* C7 (as claimed): when the keyword category and the classifier category
\* agree, the returned confidence is at least
\* min(0.95, max(kw_confidence, ml_confidence)).
C7_AgreeAtLeastMax ==
    (Reconciled /\ Agree) =>
        confidence * 100 >= Min(9500, Max(kw_confidence_of(keywords), ml_confidence))

\* C7 (amended): when the two categories agree, the returned confidence is
\* at least min(0.95, min(kw_confidence, ml_confidence)): at least the
\* smaller of the two component confidences, bounded at 0.95.
C7_AgreeAtLeastMin ==
    (Reconciled /\ Agree) =>
        confidence * 100 >= Min(9500, Min(kw_confidence_of(keywords), ml_confidence))

\* The two agree and the result lies below the larger component confidence.
C7_Witness ==
    /\ Reconciled /\ Agree
    /\ Len(keywords) = 1
    /\ ml_confidence = 10000
    /\ confidence < 95

\* C8: in every branch of the reconciler the returned confidence lies in
\* [0, 0.95] (and is a whole number of hundredths).
C8_ConfidenceRange ==
    Reconciled => confidence \in 0..95

\* The keyword branch, where only the final clamp keeps the result at 0.95.
C8_Witness ==
    /\ Reconciled /\ ~Agree
    /\ Len(keywords) = 5
    /\ ml_confidence = 10000
    /\ confidence = 95

\* C9: for text tagged zh the final category is the keyword matcher's
\* category, whatever the classifier returns and however few keywords match.
C9_ZhKeepsKeywordCategory ==
    (Reconciled /\ lang = "zh") => category = kw_category

\* zh, no keyword matched, and a confident classifier that disagrees.
C9_Witness ==
    /\ Reconciled /\ lang = "zh" /\ ~Agree
    /\ keywords = <<>>
    /\ ml_confidence > 6000
    /\ category = kw_category

\* C10: the severity assessor maps the hit counts in this order, in both
\* languages: >= 2 high -> (5, High); exactly 1 high -> (4, High); else >= 2
\* medium -> (3, Medium); else exactly 1 medium -> (2, Medium); else (1, Low).
C10_SeverityOrder ==
    Assessed =>
        LET out == <<risk_level, economic_impact>>
        IN  /\ high_hits >= 2 => out = <<5, "High">>
            /\ high_hits = 1 => out = <<4, "High">>
            /\ (high_hits = 0 /\ med_hits >= 2) => out = <<3, "Medium">>
            /\ (high_hits = 0 /\ med_hits = 1) => out = <<2, "Medium">>
            /\ (high_hits = 0 /\ med_hits = 0) => out = <<1, "Low">>

\* One high hit with three medium hits gives level 4, in a zh text.
C10_Witness ==
    /\ Assessed /\ lang = "zh"
    /\ high_hits = 1 /\ med_hits = 3
    /\ risk_level = 4 /\ economic_impact = "High"

\* C11: for both keyword matchers and every text, the returned keyword list
\* is the first min(5, hits) matched keywords of the winning category in table
\* order, so it never has more than 5 entries; and when no keyword of any
\* category occurs in the text the result is the default category
\* Infrastructure Failure with an empty list.
C11_FirstFiveOfWinner ==
    mPc = "done" =>
        LET cat == matched[1]
            kws == matched[2]
        IN  /\ cat = best_cat
            /\ Len(matched_kw) = hit_count[cat]
            /\ \A j, k \in 1..Len(matched_kw) : j < k => matched_kw[j] < matched_kw[k]
            /\ Len(kws) = Min(5, hit_count[cat])
            /\ Len(kws) <= 5
            /\ \A k \in 1..Len(kws) : kws[k] = matched_kw[k]
            /\ (\A c \in Categories : hit_count[c] = 0)
                  => matched = <<"Infrastructure Failure", <<>>>>

\* A Chinese text with six keywords of the traffic list: the first five come back.
C11_Witness ==
    /\ mPc = "done"
    /\ mLang = "zh"
    /\ hit_count["Traffic"] = 6
    /\ matched = <<"Traffic", <<1, 2, 3, 4, 5>>>>

\* The position of a category in the tables (crime, traffic, fraud,
\* infrastructure).
TableIndex(c) == CHOOSE i \in 1..Len(RiskCategory) : RiskCategory[i] = c

\* C20: in both keyword matchers the winning category has the highest count
\* of matched keywords; when several categories share the highest non-zero
\* count the one declared first in table order wins, and the returned
\* keywords are that category's hits.
C20_FirstHighestWins ==
    (mPc = "done" /\ \E c \in Categories : hit_count[c] > 0) =>
        LET w == matched[1]
        IN  /\ \A c \in Categories : hit_count[c] <= hit_count[w]
            /\ \A c \in Categories :
                  TableIndex(c) < TableIndex(w) => hit_count[c] < hit_count[w]
            /\ hit_count[w] > 0
            /\ Len(matched[2]) = Min(5, hit_count[w])
            /\ \A k \in 1..Len(matched[2]) : matched[2][k] = matched_kw[k]

\* An English text with two traffic, two fraud and one infrastructure keyword:
\* traffic, declared before fraud, wins with its two hits.
C20_Witness ==
    /\ mPc = "done"
    /\ mLang = "en"
    /\ hit_count = [c \in Categories |->
                      CASE c = "Crime" -> 0 [] c = "Traffic" -> 2
                        [] c = "Fraud" -> 2 [] OTHER -> 1]
    /\ matched[1] = "Traffic"
    /\ Len(matched[2]) = 2

\* The ids of the signals of a list of alerts or of signals.
AlertIds == {alerts[k].signal.id : k \in 1..Len(alerts)}
SignalIds == {signals[k].id : k \in 1..Len(signals)}

\* C12: in batch analysis, for any batch and any subset of signals whose
\* analyze_signal call raises, the exception is not propagated, the failing
\* signals are skipped, every remaining signal is still analyzed, and the
\* returned alerts are exactly the non-failing signals, ranked 1..M.
C12_FailuresSkipped ==
    /\ bPc # "raised"
    /\ bPc \in {"score", "rank", "done"} =>
          /\ si = Len(signals)
          /\ Len(pairs) = Len(signals) - Cardinality(skipped)
          /\ {pairs[k][1] : k \in 1..Len(pairs)}
                = {signals[k] : k \in {j \in 1..Len(signals) : j \notin skipped}}
    /\ bPc = "done" =>
          /\ AlertIds = SignalIds \ skipped
          /\ Len(alerts) = Cardinality(SignalIds \ skipped)
          /\ \A k \in 1..Len(alerts) :
                /\ alerts[k].rank = k
                /\ alerts[k].signal = signals[alerts[k].signal.id]

\* Three signals, the second raises: the other two come back ranked 1 and 2.
C12_Witness ==
    /\ bPc = "done"
    /\ Len(signals) = 3
    /\ skipped = {2}
    /\ Len(alerts) = 2
    /\ alerts[1].rank = 1
    /\ alerts[2].rank = 2

\* C13: RiskAnalysis construction succeeds for every risk_level in 1..5
\* combined with every confidence in [0.0, 1.0], the object holding the values
\* given; for any risk_level outside 1..5 or confidence outside [0.0, 1.0] it
\* fails with a validation error: no object is made and no value is clamped.
C13_RangesValidated ==
    aPc = "done" =>
        IF risk_level \in 1..5 /\ confidence \in 0..100
        THEN /\ IsObject(analysis)
             /\ analysis.risk_level = risk_level
             /\ analysis.confidence = confidence
        ELSE analysis = ValidationError

\* risk_level 0 with a confidence in range was rejected.
C13_Witness ==
    /\ aPc = "done"
    /\ risk_level = 0
    /\ confidence = 50
    /\ analysis = ValidationError

\* C14 as stated: detect_language(text) returns "zh" exactly when the number
\* of characters in U+4E00..U+9FFF divided by max(total character count of
\* text, 1) is strictly greater than 0.15, and "en" otherwise; the empty
\* string gives "en".
C14_RatioOfWholeText ==
    lPc = "done" =>
        /\ detected \in Langs
        /\ detected = "zh" <=> text.cjk * 100 > 15 * Max(TextLen(text), 1)
        /\ TextLen(text) = 0 => detected = "en"

\* C14, amended: the divisor is the length of the text without its leading and
\* trailing whitespace: "zh" exactly when the number of characters in
\* U+4E00..U+9FFF divided by max(len(text.strip()), 1) is strictly greater
\* than 0.15, and "en" otherwise; the empty string gives "en".
C14_RatioOfStrippedText ==
    lPc = "done" =>
        /\ detected \in Langs
        /\ detected = "zh" <=>
              text.cjk * 100 > 15 * Max(text.cjk + text.other, 1)
        /\ TextLen(text) = 0 => detected = "en"

\* One ideograph among six characters followed by one blank: 1/6 of the
\* stripped text, 1/7 of the whole text, and the answer is "zh".
C14_Witness ==
    /\ lPc = "done"
    /\ text = [lead |-> 0, cjk |-> 1, other |-> 5, trail |-> 1]
    /\ detected = "zh"

\* C15: for every signal, the RiskAnalysis produced by analyze_signal has a
\* keyword list of between 1 and 5 entries: the reconciler's keyword list when
\* that list is non-empty, and otherwise exactly one entry, the lowercased
\* name of the final category.
C15_KeywordsOneToFive ==
    aPc = "done" =>
        /\ IsObject(analysis)
        /\ Len(analysis.keywords) >= 1
        /\ Len(analysis.keywords) <= 5
        /\ keywords # <<>> => analysis.keywords = keywords
        /\ keywords = <<>> => analysis.keywords = <<[lower |-> analysis.category]>>

\* An English text without any keyword that the classifier puts under Crime
\* with confidence above 0.6: the one keyword is the name of the final
\* category, not of the matcher's default.
C15_Witness ==
    /\ aPc = "done"
    /\ keywords = <<>>
    /\ kw_category = "Infrastructure Failure"
    /\ analysis.category = "Crime"
    /\ analysis.keywords = <<[lower |-> "Crime"]>>

\* C16 as stated: for every signal, the confidence of the RiskAnalysis
\* returned by analyze_signal lies between 0.5 and 0.95 inclusive.
C16_ConfidenceFromHalf ==
    aPc = "done" =>
        /\ IsObject(analysis)
        /\ analysis.confidence >= 50
        /\ analysis.confidence <= 95

\* C16, amended: for every signal, the confidence of the RiskAnalysis returned
\* by analyze_signal lies between 0.4 and 0.95 inclusive.
C16_ConfidenceFromFourTenths ==
    aPc = "done" =>
        /\ IsObject(analysis)
        /\ analysis.confidence >= 40
        /\ analysis.confidence <= 95

\* No keyword matched and the classifier names another category than the
\* matcher's default with confidence 0.25: 0.6 * 0.5 + 0.4 * 0.25 = 0.4.
C16_Witness ==
    /\ aPc = "done"
    /\ keywords = <<>>
    /\ kw_category # ml_category
    /\ ml_confidence = 2500
    /\ analysis.confidence = 40

\* Two alerts made of the same kind of source at the same time with the same
\* economic impact.
SameButRisk(a, b) ==
    /\ a.signal.source = b.signal.source
    /\ a.signal.timestamp = b.signal.timestamp
    /\ a.analysis.economic_impact = b.analysis.economic_impact

\* C17: for any two pairs passed to one prioritize_alerts call whose signals
\* have the same source and timestamp and whose analyses have the same
\* economic impact but different risk_level, the pair with the higher
\* risk_level is ranked ahead of the other, in either input order.
C17_HigherRiskAhead ==
    bPc = "done" =>
        \A j, k \in 1..Len(alerts) :
            (/\ SameButRisk(alerts[j], alerts[k])
             /\ alerts[j].analysis.risk_level > alerts[k].analysis.risk_level)
            => (j < k /\ alerts[j].rank < alerts[k].rank)

\* The pair of lower risk came first in the list and was scored before the
\* clock passed the six-hour step of the common timestamp, the pair of higher
\* risk after it: the higher risk is still ahead, by 0.08 - 0.03.
C17_Witness ==
    /\ bPc = "done"
    /\ \E j, k \in 1..Len(alerts) :
          /\ j < k
          /\ SameButRisk(alerts[j], alerts[k])
          /\ alerts[j].analysis.risk_level > alerts[k].analysis.risk_level
          /\ alerts[j].signal.id > alerts[k].signal.id
          /\ alerts[j].priority_score = alerts[k].priority_score + 500

\* The texts of the articles that came in answers with status 200 and have a
\* text.
FetchedTexts ==
    UNION {{responses[q].articles[k].text :
               k \in {j \in 1..Len(responses[q].articles) :
                         ~responses[q].articles[j].blank}} :
           q \in {p \in 1..Len(responses) : responses[p].kind = "ok"}}

\* C18: fetch_news never propagates an exception: on any network error,
\* timeout, non-2xx status or undecodable response it returns an empty list,
\* and fetch_risk_news then continues with the remaining queries and returns
\* only the signals of the queries that succeeded.
C18_FetchFailuresTolerated ==
    /\ nPc # "raised"
    /\ (nPc = "articles" /\ responses[qi].kind \in FailureKinds) => articles = <<>>
    /\ nPc = "done" =>
          /\ Len(responses) = Len(RISK_QUERIES)
          /\ \A k \in 1..Len(news) : responses[news[k].text[1]].kind = "ok"
          /\ {news[k].text : k \in 1..Len(news)} = FetchedTexts
          /\ Len(news) = Cardinality(FetchedTexts)

\* The second query times out and the third gets an error status with a
\* body: the signals of the first and the fourth query come back.
C18_Witness ==
    /\ nPc = "done"
    /\ responses[2].kind = "timeout"
    /\ responses[3] = [kind |-> "http_status", articles |-> <<Article(3, 1, FALSE)>>]
    /\ Len(news) = 2
    /\ news[1].text = <<1, 1>>
    /\ news[2].text = <<4, 1>>

\* The reference policy, as a table of four exclusive cases over the inputs of
\* the reconciler: the final category and the confidence before rounding, in
\* units of 1e-5, with kw = min(0.95, 0.5 + 0.1 * count) in units of 1e-4.
ReferenceKw == Min(9500, 5000 + 1000 * Len(keywords))
ReferenceCase ==
    CASE kw_category = ml_category -> 1
      [] kw_category # ml_category /\ Len(keywords) >= 2 -> 2
      [] kw_category # ml_category /\ Len(keywords) < 2
            /\ ml_confidence > 6000 /\ lang = "en" -> 3
      [] OTHER -> 4
ReferenceCategory == IF ReferenceCase = 3 THEN ml_category ELSE kw_category
ReferenceConfidence ==
    LET kw == ReferenceKw
        ml == ml_confidence
        v == CASE ReferenceCase = 1 -> Min(95000, 6 * kw + 4 * ml + 5000)
               [] ReferenceCase = 2 -> 7 * kw + 3 * ml
               [] ReferenceCase = 3 -> 6 * ml + 4 * kw
               [] OTHER -> 6 * kw + 4 * ml
    IN  Min(95000, v)

TermsInText(list) == {o.term : o \in {x \in sev_text : x.term.list = list}}

\* C21: for English text the severity assessor counts hits
\* case-insensitively: every term of the high-severity and of the
\* medium-severity list that the text contains, in any letter case (also
\* exactly as the list writes it), contributes one hit to its list's count.
C21_CaseInsensitiveHits ==
    (Assessed /\ lang = "en") =>
        /\ high_hits = Cardinality(TermsInText("high"))
        /\ med_hits = Cardinality(TermsInText("med"))

\* The terms of the formula in units of 1e-4:
\* 0.4 * (risk_level / 5), 0.3 * e, 0.2 * c, 0.1 * t
RiskTerm(rl) == 800 * rl
EconomicTerm(e) == CASE e = "Low" -> 600 [] e = "Medium" -> 1500 [] e = "High" -> 3000
CredibilityTerm(src) ==
    CASE src = "government" -> 2000 [] src = "news" -> 1700
      [] src = "citizen_report" -> 1400 [] src = "social_media" -> 1000
RecencyTerm(ts, n) == 100 * _recency_weight(ts, n)

\* C22: compute_priority equals
\* round(min(0.4*(risk_level/5) + 0.3*e + 0.2*c + 0.1*t, 1.0), 4) where e is
\* 0.2/0.5/1.0 for low/medium/high, c is 1.0/0.85/0.7/0.5 for government/
\* news/citizen_report/social_media and t is the recency weight; the four
\* weights sum to 1.0.
C22_WeightedFormula ==
    /\ W_RISK + W_ECONOMIC + W_CREDIBILITY + W_RECENCY = 10
    /\ prPc \in {"scored", "done"} =>
          score = Min(RiskTerm(ana.risk_level) + EconomicTerm(ana.economic_impact)
                      + CredibilityTerm(sig.source) + RecencyTerm(sig.timestamp, now),
                      10000)

\* Risk 5, high impact, a government source, 61 minutes old:
\* 0.4 + 0.3 + 0.2 + 0.08
C22_Witness ==
    /\ prPc = "scored"
    /\ ana = [risk_level |-> 5, economic_impact |-> "High"]
    /\ sig.source = "government"
    /\ now - AsUtc(sig.timestamp) = 61
    /\ score = 9800

\* The recency weight inside a score: the part of
\* the score left when the three other terms are taken away (the sum never
\* exceeds 1.0, so the clamp hides nothing), in units of 1e-4 of score.
RecencyPart ==
    score - RiskTerm(ana.risk_level) - EconomicTerm(ana.economic_impact)
          - CredibilityTerm(sig.source)

\* Minutes from the timestamp to the clock reading: an aware timestamp is
\* the instant it denotes, a naive one is read as it stands.
Elapsed ==
    IF sig.timestamp.aware
    THEN now - (sig.timestamp.clock - sig.timestamp.utcoffset)
    ELSE now - sig.timestamp.clock

\* C23: the recency weight is a step function of the hours elapsed between
\* the signal timestamp and now with inclusive upper bounds: elapsed <= 1h
\* gives 1.0 (timestamps in the future included), <= 6h gives 0.8, <= 24h
\* gives 0.5, <= 72h gives 0.3, anything older 0.1; and a naive timestamp
\* yields the same weight as the aware UTC timestamp with the same clock
\* reading.
C23_RecencySteps ==
    prPc \in {"scored", "done"} =>
        /\ Elapsed <= 60 => RecencyPart = 1000
        /\ (Elapsed > 60 /\ Elapsed <= 360) => RecencyPart = 800
        /\ (Elapsed > 360 /\ Elapsed <= 1440) => RecencyPart = 500
        /\ (Elapsed > 1440 /\ Elapsed <= 4320) => RecencyPart = 300
        /\ Elapsed > 4320 => RecencyPart = 100
        /\ ~sig.timestamp.aware =>
              score = compute_priority(
                         [sig EXCEPT !.timestamp =
                             [clock |-> sig.timestamp.clock, aware |-> TRUE, utcoffset |-> 0]],
                         ana, now)

\* A naive timestamp exactly six hours before the clock reading: 0.8.
C23_Witness ==
    /\ prPc = "scored"
    /\ ~sig.timestamp.aware
    /\ Elapsed = 360
    /\ RecencyPart = 800

\* The rank of the alert made of the signal with id i, in a list of alerts.
IdsOf(as) == {as[k].signal.id : k \in 1..Len(as)}
RankOfId(as, i) == as[CHOOSE k \in 1..Len(as) : as[k].signal.id = i].rank

\* Where the ranks stand at each point of prioritize_alerts and of
\* analyze_single.
RanksInStep ==
    /\ bPc = "score" => \A k \in 1..Len(alerts) : alerts[k].rank = 0
    /\ bPc = "rank" =>
          \A k \in 1..Len(alerts) : alerts[k].rank = IF k <= ri THEN k ELSE 0
    /\ bPc = "done" => \A k \in 1..Len(alerts) : alerts[k].rank >= 1
    /\ IsObject(alert) => alert.rank = 0

\* What a step does to the ranks: a new alert has rank 0; a rank changes
\* only in the ranking loop, from 0, to a positive integer.
RankWrittenOnce ==
    /\ \A i \in IdsOf(alerts') \ IdsOf(alerts) : RankOfId(alerts', i) = 0
    /\ \A i \in IdsOf(alerts') \cap IdsOf(alerts) :
          RankOfId(alerts', i) # RankOfId(alerts, i) =>
              /\ bPc = "rank"
              /\ RankOfId(alerts, i) = 0
              /\ RankOfId(alerts', i) >= 1

\* C24: every PrioritizedAlert is created with rank 0; within
\* prioritize_alerts each alert's rank is written exactly once, after the sort
\* has completed, to a positive integer; an alert returned by the
\* single-signal analyze endpoint is never ranked and keeps rank 0.
C24_RankLifecycle == [](RanksInStep) /\ [][RankWrittenOnce]_vars

\* A batch of two has come back ranked 1 and 2, and the single-signal
\* endpoint has returned its alert with rank 0.
C24_Witness ==
    /\ bPc = "done"
    /\ Len(alerts) = 2
    /\ alerts[1].rank = 1
    /\ alerts[2].rank = 2
    /\ prPc = "done"
    /\ IsObject(alert)
    /\ alert.rank = 0

\* ------------------------------------------------------------------------
\* C25  Once the classifier is initialized, predict and analyze_signal never
\* modify it, and the RiskAnalysis of a signal depends only on that signal:
\* every finished analyze_signal call, whatever was analyzed before it or is
\* being analyzed by other threads, returned the analysis of its own signal
\* under the fitted pipeline, and a classifier object that has been stored
\* or handed out is never changed again.
\* ------------------------------------------------------------------------
Fitted == [trained |-> TRUE, fits |-> 1]
OwnAnalysis(s) == AnalysisOf(s, predict(Fitted, s))
ResultsOwn ==
    \A t \in Callers : \A k \in 1..Len(analyses[t]) :
        analyses[t][k].analysis = OwnAnalysis(analyses[t][k].signal)
InUse == {classifier} \cup Returned
ClassifierUnmodified ==
    \A i \in 1..Len(heap) : i \in InUse => heap'[i] = heap[i]
C25_AnalysisOfSignalAlone == [](ResultsOwn) /\ [][ClassifierUnmodified]_vars

\* Both threads made their first call at the same time and were handed two
\* different classifier objects; thread 1 analyzed signal 1 and then signal
\* 2, thread 2 analyzed signal 1, and signal 1 got the same analysis twice.
C25_Witness ==
    /\ Len(analyses[1]) = 2 /\ Len(analyses[2]) = 1
    /\ analyses[1][1].signal.id = 1 /\ analyses[1][2].signal.id = 2
    /\ analyses[2][1].signal.id = 1
    /\ got[1][1] # got[2][1]
    /\ analyses[1][1].analysis = analyses[2][1].analysis
    /\ analyses[1][1].analysis.category = "Fraud"
    /\ analyses[1][2].analysis.category = "Traffic"

\* ------------------------------------------------------------------------
\* C26  prioritize_alerts returns one alert per input pair: the (signal,
\* analysis) pairs of the output are a permutation of the input pairs, N of
\* them.  It never changes the input list, nor the signal, the analysis or
\* the score of an alert it has created; the only field it writes after
\* creating an alert is the alert's rank.
\* ------------------------------------------------------------------------
PairsOfAlerts == {<<alerts[k].signal, alerts[k].analysis>> : k \in 1..Len(alerts)}
PairsOfInput == {pairs[k] : k \in 1..Len(pairs)}
AlertOfId(as, i) == as[CHOOSE k \in 1..Len(as) : as[k].signal.id = i]
OnePerPair ==
    bPc = "done" =>
        /\ Len(alerts) = Len(pairs)
        /\ PairsOfAlerts = PairsOfInput
        /\ \A j, k \in 1..Len(alerts) :
              alerts[j].signal.id = alerts[k].signal.id => j = k
OnlyRankWritten ==
    /\ pairs' = pairs
    /\ \A i \in IdsOf(alerts) :
          /\ i \in IdsOf(alerts')
          /\ AlertOfId(alerts', i).signal = AlertOfId(alerts, i).signal
          /\ AlertOfId(alerts', i).analysis = AlertOfId(alerts, i).analysis
          /\ AlertOfId(alerts', i).priority_score = AlertOfId(alerts, i).priority_score
    /\ \A i \in IdsOf(alerts') \ IdsOf(alerts) :
          \E k \in 1..Len(pairs) :
              /\ pairs[k][1].id = i
              /\ AlertOfId(alerts', i).signal = pairs[k][1]
              /\ AlertOfId(alerts', i).analysis = pairs[k][2]
C26_PermutationAndFrame == [](OnePerPair) /\ [][OnlyRankWritten]_vars

\* Three pairs returned in the order 3, 1, 2, the last two with equal scores
\* and all three ranked.
C26_Witness ==
    /\ bPc = "done"
    /\ Len(pairs) = 3
    /\ alerts[1].signal.id = 3 /\ alerts[2].signal.id = 1 /\ alerts[3].signal.id = 2
    /\ alerts[2].priority_score = alerts[3].priority_score
    /\ alerts[3].rank = 3
    /\ PairsOfAlerts = PairsOfInput

\* ------------------------------------------------------------------------
\* C27  Within one prioritize_alerts call, two pairs whose signals have the
\* same timestamp and source and whose analyses have the same risk_level and
\* economic impact receive identical priority scores, although the current
\* time is read once for each pair.
\* ------------------------------------------------------------------------
SameInputs(a, b) ==
    /\ a.signal.timestamp = b.signal.timestamp
    /\ a.signal.source = b.signal.source
    /\ a.analysis.risk_level = b.analysis.risk_level
    /\ a.analysis.economic_impact = b.analysis.economic_impact
C27_EqualPairsEqualScores ==
    \A j, k \in 1..Len(alerts) :
        SameInputs(alerts[j], alerts[k])
        => alerts[j].priority_score = alerts[k].priority_score

\* ------------------------------------------------------------------------
\* C28  Whatever the queries return (articles, an empty list, a failure,
\* articles rejected for empty text), the signals fetch_risk_news has
\* collected carry the ids NEWS-001, NEWS-002, ..., NEWS-k in list order,
\* without a gap and without a duplicate, and idx is one more than the
\* number of signals collected.
\* ------------------------------------------------------------------------
NewsNumbered(k) ==
    [prefix |-> "NEWS-",
     digits |-> CASE k < 10 -> <<0, 0, k>>
                  [] k >= 10 /\ k < 100 -> <<0, k \div 10, k % 10>>
                  [] OTHER -> <<k \div 100, (k \div 10) % 10, k % 10>>]
C28_IdsContiguous ==
    /\ idx = Len(news) + 1
    /\ \A k \in 1..Len(news) : news[k].id = NewsNumbered(k)
    /\ \A j, k \in 1..Len(news) : news[j].id = news[k].id => j = k

\* The first query returns an article without text and then one with text,
\* the second fails, the third returns nothing, the fourth returns an
\* article with text after one without: two signals, NEWS-001 and NEWS-002.
C28_Witness ==
    /\ nPc = "done"
    /\ responses[1] = [kind |-> "ok", articles |-> <<Article(1, 1, TRUE), Article(1, 2, FALSE)>>]
    /\ responses[2].kind = "bad_json"
    /\ responses[3] = [kind |-> "ok", articles |-> <<>>]
    /\ responses[4] = [kind |-> "ok", articles |-> <<Article(4, 1, TRUE), Article(4, 2, FALSE)>>]
    /\ Len(news) = 2
    /\ news[1].id.digits = <<0, 0, 1>> /\ news[1].text = <<1, 2>>
    /\ news[2].id.digits = <<0, 0, 2>> /\ news[2].text = <<4, 2>>

\* ------------------------------------------------------------------------
\* C29  The keyword list the hybrid reconciler returns is the keyword
\* matcher's list, unchanged, in each of the four branches.  Where the
\* classifier's category becomes the final category, the keywords returned
\* are still those of the keyword category.
\* ------------------------------------------------------------------------
KeywordsOfMatcher ==
    Reconciled =>
        \A k \in 1..Len(keywords) : keywords[k] = [cat |-> kw_category, k |-> k]
KeywordsKept == aPc = "reconcile" => keywords' = keywords /\ kw_category' = kw_category
C29_KeywordsUnchanged == [](KeywordsOfMatcher) /\ [][KeywordsKept]_vars

\* English, one Traffic keyword, the classifier says Fraud with 0.75: the
\* analysis is Fraud and its only keyword is the Traffic keyword.
C29_Witness ==
    /\ aPc = "done"
    /\ lang = "en"
    /\ kw_category = "Traffic"
    /\ ml_category = "Fraud" /\ ml_confidence = 7500
    /\ category = "Fraud"
    /\ analysis.category = "Fraud"
    /\ analysis.keywords = <<[cat |-> "Traffic", k |-> 1]>>

\* ------------------------------------------------------------------------
\* C30  For every valid input (risk_level 1..5, the three impact tiers, the
\* four source kinds, the five recency tiers) the weighted sum of
\* compute_priority, before min(score, 1.0), lies in [0.25, 1.0]: the score
\* returned is the sum itself, and no score is below 0.25.
\* ------------------------------------------------------------------------
RecencyTier ==
    CASE Elapsed <= 60 -> 1000
      [] Elapsed > 60 /\ Elapsed <= 360 -> 800
      [] Elapsed > 360 /\ Elapsed <= 1440 -> 500
      [] Elapsed > 1440 /\ Elapsed <= 4320 -> 300
      [] OTHER -> 100
UnclampedSum ==
    RiskTerm(ana.risk_level) + EconomicTerm(ana.economic_impact)
    + CredibilityTerm(sig.source) + RecencyTier
C30_ClampNeverActs ==
    prPc \in {"scored", "done"} =>
        /\ UnclampedSum >= 2500
        /\ UnclampedSum <= 10000
        /\ score = UnclampedSum

\* The smallest score, 0.25: risk 1, low impact, social media, older than 72
\* hours: 0.08 + 0.06 + 0.10 + 0.01
C30_Witness ==
    /\ prPc = "scored"
    /\ ana = [risk_level |-> 1, economic_impact |-> "Low"]
    /\ sig.source = "social_media"
    /\ Elapsed > 4320
    /\ UnclampedSum = 2500
    /\ score = 2500

====
